---- MODULE Spec2Model ----
(***************************************************************************)
(* The configuration mutation handlers of                                  *)
(* internal/api/resolver_mutation_configure.go as a state machine.         *)
(*                                                                         *)
(* The config store (config.GetInstance()) is the process-wide document    *)
(* `mem`; c.Write() serialises it to `disk`.  A handler is one atomic      *)
(* action under Spec (one caller at a time) and a sequence of field steps  *)
(* under SpecConc (two callers, the store's accessors being the only       *)
(* atomic units, since the handlers take no lock).                         *)
(***************************************************************************)
EXTENDS Integers, Sequences, FiniteSets, TLC

VARIABLES
    mem,            \* the in-memory configuration document, key -> value
    disk,           \* the durable document, as written by the last c.Write()
    files,          \* custom.css / custom.js / custom-locales.json contents
    overrides,      \* keys for which c.HasOverride(key) holds
    allowReadOnly,  \* c.GetAllowReadOnlyConfigFile()
    last,           \* the call that returned last (handler, input, outcome)
    inflight        \* SpecConc: caller -> the call it is executing

vars == <<mem, disk, files, overrides, allowReadOnly, last, inflight>>

(***************************************************************************)
(* Bounds of the model.                                                    *)
(***************************************************************************)
\* at most this many fields are present (non-nil) in one input record
MaxPresent == 2

\* SpecSeq: at most this many mutation calls are made one after the other
MaxCalls == 2

(***************************************************************************)
(* Small helpers on finite maps.                                           *)
(***************************************************************************)
Empty == [k \in {} |-> TRUE]

Put(f, k, v) == [x \in (DOMAIN f) \cup {k} |-> IF x = k THEN v ELSE f[x]]

Has(input, field) == field \in DOMAIN input

(***************************************************************************)
(* Primitives the handlers call outside this file, by their outcome on the *)
(* values the model uses.                                                  *)
(***************************************************************************)
\* fsutil.DirExists(path): directories present on disk
ExistingDirs == {"lib0", "lib1", "dirA", "dirB"}

DirExists(path) == path \in ExistingDirs

\* fsutil.EnsureDir(path): MkdirAll fails on "" and on an uncreatable path
EnsureDir(path) == path \notin {"", "nodir"}

\* filepath.Ext(path)
Ext(path) ==
    CASE path = "db0.sqlite" -> ".sqlite"
      [] path = "db1.db"     -> ".db"
      [] path = "db1.txt"    -> ".txt"
      [] OTHER               -> ""

\* regexp.Compile(pattern) returns no error
Compile(pattern) == pattern \in {"cover.*", "a.*", "tag.*", ""}

\* ffmpeg.ValidateFFMpeg(path) / ffmpeg.ValidateFFProbe(path) return no error
ValidateFFMpeg(path) == path \in {"ff1", "ff2"}

ValidateFFProbe(path) == path \in {"fp1", "fp2"}

\* c.ValidateStashBoxes(boxes) returns no error
ValidateStashBoxes(boxes) == boxes = "boxes_ok"

\* the hash c.SetPassword stores for a non-empty password
hashPassword(pw) ==
    CASE pw = "pw1" -> "hash_pw1"
      [] pw = "pw2" -> "hash_pw2"
      [] OTHER      -> "hash_other"

\* c.HasOverride(key)
HasOverride(key) == key \in overrides

\* the document key under which the store keeps a plugin's configuration blob
PluginKey(pluginID) ==
    CASE pluginID = "p1" -> "Plugins.p1"
      [] OTHER           -> "Plugins.p2"

(***************************************************************************)
(* The state of one handler call: the store it acts on and its locals.     *)
(*   local   localConfig, the ChangeSet                                    *)
(*   wrote   key -> value the call passed to a setter of the store         *)
(*   flags   the refresh* booleans that are true                           *)
(*   events  c.Write() outcomes and hook invocations, in program order     *)
(*   status  "run" | "ok" | "err" | "panic"                                *)
(*   result  "record" (non-nil result), "nil", "none" (no return)          *)
(*   ret     the string GenerateAPIKey returns                             *)
(***************************************************************************)
NewCall(m, d, f) ==
    [mem |-> m, disk |-> d, files |-> f, local |-> Empty, wrote |-> Empty,
     flags |-> {}, events |-> <<>>, status |-> "run", err |-> "none",
     errKey |-> "", payload |-> Empty, result |-> "none", ret |-> ""]

\* return <result>, err
Fail(st, kind, key, result) ==
    [st EXCEPT !.status = "err", !.err = kind, !.errKey = key, !.result = result]

\* return <result>, nil
Return(st) == [st EXCEPT !.status = "ok", !.result = "record"]

\* c.SetString / SetBool / SetInt / SetFloat / SetInterface (key, value)
Set(st, key, value) ==
    [st EXCEPT !.mem = [@ EXCEPT ![key] = value], !.wrote = Put(@, key, value)]

\* c.SetPassword(value): a blank password is stored blank, any other hashed
SetPassword(st, value) ==
    [st EXCEPT !.mem = [@ EXCEPT !["Password"] =
                            IF value = "" THEN "" ELSE hashPassword(value)],
               !.wrote = Put(@, "Password", value)]

\* c.SetPluginConfiguration(pluginID, value)
SetPluginConfiguration(st, pluginID, value) ==
    [st EXCEPT !.mem = [@ EXCEPT ![PluginKey(pluginID)] = value],
               !.wrote = Put(@, pluginID, value)]

\* localConfig[key] = value
Record(st, key, value) == [st EXCEPT !.local = Put(@, key, value)]

\* c.SetX(key, value); localConfig[key] = value
SetAndRecord(st, key, value) == Record(Set(st, key, value), key, value)

\* a refresh hook (or another side effect on a subsystem) is invoked
Invoke(st, hook) == [st EXCEPT !.events = Append(@, hook)]

Raise(st, flagset) == [st EXCEPT !.flags = @ \cup flagset]

\* setConfigString / setConfigBool / setConfigInt / setConfigFloat
setConfig(st, input, field, key) ==
    IF Has(input, field) THEN SetAndRecord(st, key, input[field]) ELSE st

\* c.Write(): the whole in-memory document goes to durable storage, or fails
Write(st, env) ==
    IF env.writeOk
    THEN [st EXCEPT !.disk = st.mem, !.events = Append(@, "WriteOk")]
    ELSE [st EXCEPT !.events = Append(@, "WriteFail")]

\* if err := c.Write(); err != nil { if c.GetAllowReadOnlyConfigFile() ... }
WriteOrFail(st, env) ==
    LET w == Write(st, env)
    IN  IF env.writeOk THEN w
        ELSE IF allowReadOnly
             THEN [Fail(w, "ReadOnlyPayload", "", "record") EXCEPT !.payload = w.local]
             ELSE Fail(w, "WriteError", "", "record")

(***************************************************************************)
(* ConfigureGeneral, field by field in the order of the source.  Every     *)
(* step takes the call state and the input record (a map from the fields   *)
(* that are non-nil to their values).                                      *)
(***************************************************************************)
\* mutant: every path is checked for existence, stored or not
FirstMissingStash_CheckAll(stashes, existingPaths, i) ==
    IF \E j \in i..Len(stashes) : ~DirExists(stashes[j])
    THEN CHOOSE j \in i..Len(stashes) :
            ~DirExists(stashes[j]) /\ \A k \in i..(j - 1) : DirExists(stashes[k])
    ELSE 0

\* the first path of input.Stashes that is new and does not exist, or 0
RECURSIVE FirstMissingStash(_, _, _)
FirstMissingStash(stashes, existingPaths, i) ==
    IF i > Len(stashes) THEN 0
    ELSE LET isNew == \A j \in 1..Len(existingPaths) : existingPaths[j] # stashes[i]
         IN  IF isNew /\ ~DirExists(stashes[i]) THEN i
             ELSE FirstMissingStash(stashes, existingPaths, i + 1)

Stashes(st, input) ==
    IF ~Has(input, "Stashes") THEN st
    ELSE IF FirstMissingStash(input["Stashes"], st.mem["Stash"], 1) # 0
         THEN Fail(st, "PathNotFound", "", "record")
         ELSE SetAndRecord(st, "Stash", input["Stashes"])

\* checkConfigOverride(key): the error, or "none"
checkConfigOverride(key) ==
    IF HasOverride(key) THEN "ErrOverriddenConfig" ELSE "none"

\* validateDir(key, value, optional): the error, or "none"
validateDir(key, value, optional) ==
    IF checkConfigOverride(key) # "none" THEN checkConfigOverride(key)
    ELSE IF (~optional \/ value # "") /\ ~EnsureDir(value) THEN "EnsureDirFailed"
    ELSE "none"

DatabasePath(st, input) ==
    IF Has(input, "DatabasePath") /\ st.mem["Database"] # input["DatabasePath"]
    THEN IF checkConfigOverride("Database") # "none"
         THEN Fail(st, checkConfigOverride("Database"), "Database", "record")
         ELSE IF Ext(input["DatabasePath"]) \notin {".db", ".sqlite", ".sqlite3"}
         THEN Fail(st, "InvalidExtension", "", "record")
         ELSE SetAndRecord(st, "Database", input["DatabasePath"])
    ELSE st

\* mutant: the directory is validated and set whether or not it changed
DirField_NoCompare(st, input, field, key, optional, flagset) ==
    IF Has(input, field)
    THEN LET err == validateDir(key, input[field], optional)
         IN  IF err # "none"
             THEN Fail(st, err, IF err = "ErrOverriddenConfig" THEN key ELSE "", "record")
             ELSE Raise(SetAndRecord(st, key, input[field]), flagset)
    ELSE st

\* the shape shared by the directory fields: compare, validateDir, set, flag
DirField(st, input, field, key, optional, flagset) ==
    IF Has(input, field) /\ st.mem[key] # input[field]
    THEN LET err == validateDir(key, input[field], optional)
         IN  IF err # "none"
             THEN Fail(st, err, IF err = "ErrOverriddenConfig" THEN key ELSE "", "record")
             ELSE Raise(SetAndRecord(st, key, input[field]), flagset)
    ELSE st

BackupDirectoryPath(st, input) ==
    DirField(st, input, "BackupDirectoryPath", "BackupDirectoryPath", TRUE, {})

GeneratedPath(st, input) ==
    DirField(st, input, "GeneratedPath", "Generated", FALSE, {})

ScrapersPath(st, input) ==
    DirField(st, input, "ScrapersPath", "ScrapersPath", FALSE,
             {"refreshScraperCache", "refreshScraperSource"})

PluginsPath(st, input) ==
    DirField(st, input, "PluginsPath", "PluginsPath", FALSE,
             {"refreshPluginCache", "refreshPluginSource"})

MetadataPath(st, input) ==
    DirField(st, input, "MetadataPath", "Metadata", TRUE, {})

CachePath(st, input) ==
    DirField(st, input, "CachePath", "Cache", TRUE, {"refreshStreamManager"})

BlobsPath(st, input) ==
    DirField(st, input, "BlobsPath", "BlobsPath", TRUE, {"refreshBlobStorage"})

BlobsStorage(st, input) ==
    IF Has(input, "BlobsStorage") /\ input["BlobsStorage"] # st.mem["BlobsStorage"]
    THEN IF input["BlobsStorage"] = "FILESYSTEM" /\ st.mem["BlobsPath"] = ""
         THEN Fail(st, "BlobsPathNotSet", "", "record")
         ELSE Raise(SetAndRecord(st, "BlobsStorage", input["BlobsStorage"]),
                    {"refreshBlobStorage"})
    ELSE st

FfmpegPath(st, input) ==
    IF Has(input, "FfmpegPath") /\ input["FfmpegPath"] # st.mem["FFMpegPath"]
    THEN IF input["FfmpegPath"] # "" /\ ~ValidateFFMpeg(input["FfmpegPath"])
         THEN Fail(st, "InvalidFFMpeg", "", "record")
         ELSE Raise(SetAndRecord(st, "FFMpegPath", input["FfmpegPath"]),
                    {"refreshFfmpeg"})
    ELSE st

FfprobePath(st, input) ==
    IF Has(input, "FfprobePath") /\ input["FfprobePath"] # st.mem["FFProbePath"]
    THEN IF input["FfprobePath"] # "" /\ ~ValidateFFProbe(input["FfprobePath"])
         THEN Fail(st, "InvalidFFProbe", "", "record")
         ELSE Raise(SetAndRecord(st, "FFProbePath", input["FfprobePath"]),
                    {"refreshFfmpeg"})
    ELSE st

\* mutant: the stored flag decides, the pending one is ignored
pendingCalculateMD5_StoredOnly(st, input) == st.mem["CalculateMD5"]

\* calculateMD5 := c.IsCalculateMD5(); if input.CalculateMd5 != nil { ... }
pendingCalculateMD5(st, input) ==
    IF Has(input, "CalculateMd5") THEN input["CalculateMd5"]
    ELSE st.mem["CalculateMD5"]

\* env.repoOk: manager.ValidateVideoFileNamingAlgorithm returns no error
VideoFileNamingAlgorithm(st, input, env) ==
    IF Has(input, "VideoFileNamingAlgorithm")
       /\ input["VideoFileNamingAlgorithm"] # st.mem["VideoFileNamingAlgorithm"]
    THEN IF ~pendingCalculateMD5(st, input) /\ input["VideoFileNamingAlgorithm"] = "MD5"
         THEN Fail(st, "CalculateMD5Required", "", "record")
         ELSE IF ~env.repoOk
         THEN Fail(st, "AlgorithmRejected", "", "record")
         ELSE SetAndRecord(st, "VideoFileNamingAlgorithm",
                           input["VideoFileNamingAlgorithm"])
    ELSE st

\* a run of unconditional setConfigX(localConfig, key, input.Field) lines:
\* pairs <<field, key>>, applied in order
RECURSIVE setConfigAll(_, _, _, _)
setConfigAll(st, input, pairs, i) ==
    IF i > Len(pairs) THEN st
    ELSE setConfigAll(setConfig(st, input, pairs[i][1], pairs[i][2]), input, pairs, i + 1)

\* lines 289-315 (PreviewPreset and the two transcode sizes are stored as
\* their String(), which for these string enums is the value itself)
TuningFields ==
    << <<"CalculateMd5", "CalculateMD5">>,
       <<"ParallelTasks", "ParallelTasks">>,
       <<"PreviewAudio", "PreviewAudio">>,
       <<"PreviewSegments", "PreviewSegments">>,
       <<"PreviewSegmentDuration", "PreviewSegmentDuration">>,
       <<"PreviewExcludeStart", "PreviewExcludeStart">>,
       <<"PreviewExcludeEnd", "PreviewExcludeEnd">>,
       <<"PreviewPreset", "PreviewPreset">>,
       <<"TranscodeHardwareAcceleration", "TranscodeHardwareAcceleration">>,
       <<"MaxTranscodeSize", "MaxTranscodeSize">>,
       <<"MaxStreamingTranscodeSize", "MaxStreamingTranscodeSize">>,
       <<"WriteImageThumbnails", "WriteImageThumbnails">>,
       <<"CreateImageClipsFromVideos", "CreateImageClipsFromVideos">> >>

GalleryCoverRegex(st, input) ==
    IF Has(input, "GalleryCoverRegex")
    THEN IF ~Compile(input["GalleryCoverRegex"])
         THEN Fail(st, "InvalidPattern", "", "record")
         ELSE SetAndRecord(st, "GalleryCoverRegex", input["GalleryCoverRegex"])
    ELSE st

\* *input.Password is dereferenced after the username is set: a nil Password
\* is a nil pointer dereference
Username(st, input) ==
    IF Has(input, "Username") /\ input["Username"] # st.mem["Username"]
    THEN LET s == SetAndRecord(st, "Username", input["Username"])
         IN  IF Has(input, "Password") THEN s
             ELSE [s EXCEPT !.status = "panic", !.result = "none"]
    ELSE st

\* the plaintext input is compared with the stored hash
Password(st, input) ==
    IF Has(input, "Password") /\ input["Password"] # st.mem["Password"]
    THEN Record(SetPassword(st, input["Password"]), "Password", input["Password"])
    ELSE st

\* lines 355-358
SessionLogFields ==
    << <<"MaxSessionAge", "MaxSessionAge">>,
       <<"LogFile", "LogFile">>,
       <<"LogOut", "LogOut">>,
       <<"LogAccess", "LogAccess">> >>

LogLevel(st, input) ==
    IF Has(input, "LogLevel") /\ input["LogLevel"] # st.mem["LogLevel"]
    THEN Invoke(SetAndRecord(st, "LogLevel", input["LogLevel"]), "SetLogLevel")
    ELSE st

\* a list of patterns, each of which must compile before the list is set
PatternList(st, input, field, key) ==
    IF Has(input, field)
    THEN IF \E i \in 1..Len(input[field]) : ~Compile(input[field][i])
         THEN Fail(st, "InvalidPattern", "", "record")
         ELSE SetAndRecord(st, key, input[field])
    ELSE st

Excludes(st, input) == PatternList(st, input, "Excludes", "Exclude")

ImageExcludes(st, input) == PatternList(st, input, "ImageExcludes", "ImageExclude")

\* lines 391-409
ExtensionFields ==
    << <<"VideoExtensions", "VideoExtensions">>,
       <<"ImageExtensions", "ImageExtensions">>,
       <<"GalleryExtensions", "GalleryExtensions">>,
       <<"CreateGalleriesFromFolders", "CreateGalleriesFromFolders">> >>

\* set in the store, not recorded in localConfig
CustomPerformerImageLocation(st, input) ==
    IF Has(input, "CustomPerformerImageLocation")
    THEN Invoke(Set(st, "CustomPerformerImageLocation",
                    input["CustomPerformerImageLocation"]),
                "initCustomPerformerImages")
    ELSE st

\* the one error return whose result is nil
StashBoxes(st, input) ==
    IF Has(input, "StashBoxes")
    THEN IF ~ValidateStashBoxes(input["StashBoxes"])
         THEN Fail(st, "InvalidStashBoxes", "", "nil")
         ELSE SetAndRecord(st, "StashBoxes", input["StashBoxes"])
    ELSE st

\* lines 424-449
TranscodeArgFields ==
    << <<"PythonPath", "PythonPath">>,
       <<"TranscodeInputArgs", "TranscodeInputArgs">>,
       <<"TranscodeOutputArgs", "TranscodeOutputArgs">>,
       <<"LiveTranscodeInputArgs", "LiveTranscodeInputArgs">>,
       <<"LiveTranscodeOutputArgs", "LiveTranscodeOutputArgs">>,
       <<"DrawFunscriptHeatmapRange", "DrawFunscriptHeatmapRange">> >>

\* mutant: new package sources also flag the scraper cache
ScraperPackageSources_BothFlags(st, input) ==
    IF Has(input, "ScraperPackageSources")
    THEN Raise(SetAndRecord(st, "ScraperPackageSources", input["ScraperPackageSources"]),
               {"refreshScraperCache", "refreshScraperSource"})
    ELSE st

ScraperPackageSources(st, input) ==
    IF Has(input, "ScraperPackageSources")
    THEN Raise(SetAndRecord(st, "ScraperPackageSources", input["ScraperPackageSources"]),
               {"refreshScraperSource"})
    ELSE st

PluginPackageSources(st, input) ==
    IF Has(input, "PluginPackageSources")
    THEN Raise(SetAndRecord(st, "PluginPackageSources", input["PluginPackageSources"]),
               {"refreshPluginSource"})
    ELSE st

\* the hook is invoked when its flag is set
InvokeIf(st, flag, hook) == IF flag \in st.flags THEN Invoke(st, hook) ELSE st

\* mutant: refreshStreamManager is not forced after RefreshFFMpeg
RefreshFfmpegStep_NoStream(st) == InvokeIf(st, "refreshFfmpeg", "RefreshFFMpeg")

\* if refreshFfmpeg { RefreshFFMpeg(ctx); refreshStreamManager = true }
RefreshFfmpegStep(st) ==
    IF "refreshFfmpeg" \in st.flags
    THEN Raise(Invoke(st, "RefreshFFMpeg"), {"refreshStreamManager"})
    ELSE st

\* mutant: the stream manager is refreshed before the transcoder binaries
GeneralRefresh_StreamFirst(st) ==
    LET s1 == Invoke(st, "RefreshConfig")
        s2 == InvokeIf(s1, "refreshScraperCache", "RefreshScraperCache")
        s3 == InvokeIf(s2, "refreshPluginCache", "RefreshPluginCache")
        s4 == InvokeIf(Raise(s3, IF "refreshFfmpeg" \in s3.flags
                                 THEN {"refreshStreamManager"} ELSE {}),
                       "refreshStreamManager", "RefreshStreamManager")
        s5 == InvokeIf(s4, "refreshFfmpeg", "RefreshFFMpeg")
        s6 == InvokeIf(s5, "refreshBlobStorage", "SetBlobStoreOptions")
        s7 == InvokeIf(s6, "refreshScraperSource", "RefreshScraperSourceManager")
        s8 == InvokeIf(s7, "refreshPluginSource", "RefreshPluginSourceManager")
    IN  Return(s8)

\* lines 475-501: the refresh dispatch after a successful c.Write()
GeneralRefresh(st) ==
    LET s1 == Invoke(st, "RefreshConfig")
        s2 == InvokeIf(s1, "refreshScraperCache", "RefreshScraperCache")
        s3 == InvokeIf(s2, "refreshPluginCache", "RefreshPluginCache")
        s4 == RefreshFfmpegStep(s3)
        s5 == InvokeIf(s4, "refreshStreamManager", "RefreshStreamManager")
        s6 == InvokeIf(s5, "refreshBlobStorage", "SetBlobStoreOptions")
        s7 == InvokeIf(s6, "refreshScraperSource", "RefreshScraperSourceManager")
        s8 == InvokeIf(s7, "refreshPluginSource", "RefreshPluginSourceManager")
    IN  Return(s8)

NGeneralSteps == 29

\* step i of ConfigureGeneral
GeneralStep(i, st, input, env) ==
    CASE i = 1  -> Stashes(st, input)
      [] i = 2  -> DatabasePath(st, input)
      [] i = 3  -> BackupDirectoryPath(st, input)
      [] i = 4  -> GeneratedPath(st, input)
      [] i = 5  -> ScrapersPath(st, input)
      [] i = 6  -> PluginsPath(st, input)
      [] i = 7  -> MetadataPath(st, input)
      [] i = 8  -> CachePath(st, input)
      [] i = 9  -> BlobsPath(st, input)
      [] i = 10 -> BlobsStorage(st, input)
      [] i = 11 -> FfmpegPath(st, input)
      [] i = 12 -> FfprobePath(st, input)
      [] i = 13 -> VideoFileNamingAlgorithm(st, input, env)
      [] i = 14 -> setConfigAll(st, input, TuningFields, 1)
      [] i = 15 -> GalleryCoverRegex(st, input)
      [] i = 16 -> Username(st, input)
      [] i = 17 -> Password(st, input)
      [] i = 18 -> setConfigAll(st, input, SessionLogFields, 1)
      [] i = 19 -> LogLevel(st, input)
      [] i = 20 -> Excludes(st, input)
      [] i = 21 -> ImageExcludes(st, input)
      [] i = 22 -> setConfigAll(st, input, ExtensionFields, 1)
      [] i = 23 -> CustomPerformerImageLocation(st, input)
      [] i = 24 -> StashBoxes(st, input)
      [] i = 25 -> setConfigAll(st, input, TranscodeArgFields, 1)
      [] i = 26 -> ScraperPackageSources(st, input)
      [] i = 27 -> PluginPackageSources(st, input)
      [] i = 28 -> WriteOrFail(st, env)
      [] OTHER  -> GeneralRefresh(st)

\* the steps from i on, until the handler returns or faults
RECURSIVE RunGeneral(_, _, _, _)
RunGeneral(i, st, input, env) ==
    IF i > NGeneralSteps \/ st.status # "run" THEN st
    ELSE RunGeneral(i + 1, GeneralStep(i, st, input, env), input, env)

(***************************************************************************)
(* The other handlers.  Each is straight-line code ending in c.Write().    *)
(***************************************************************************)
\* c.SetCSS / c.SetJavascript / c.SetCustomLocales write a file beside the
\* configuration file, not a key of the document
SetFile(st, input, field, file) ==
    IF Has(input, field) THEN [st EXCEPT !.files[file] = input[field]] ELSE st

\* a nested options record: its fields are set when the record is non-nil
setConfigNested(st, input, field, pairs) ==
    IF Has(input, field) THEN setConfigAll(st, input[field], pairs, 1) ELSE st

\* lines 508-529
InterfaceFields ==
    << <<"MenuItems", "MenuItems">>,
       <<"SoundOnPreview", "SoundOnPreview">>,
       <<"WallShowTitle", "WallShowTitle">>,
       <<"NoBrowser", "NoBrowser">>,
       <<"NotificationsEnabled", "NotificationsEnabled">>,
       <<"ShowScrubber", "ShowScrubber">>,
       <<"WallPlayback", "WallPlayback">>,
       <<"MaximumLoopDuration", "MaximumLoopDuration">>,
       <<"AutostartVideo", "AutostartVideo">>,
       <<"ShowStudioAsText", "ShowStudioAsText">>,
       <<"AutostartVideoOnPlaySelected", "AutostartVideoOnPlaySelected">>,
       <<"ContinuePlaylistDefault", "ContinuePlaylistDefault">>,
       <<"Language", "Language">> >>

\* lines 531-542
ImageLightboxFields ==
    << <<"SlideshowDelay", "ImageLightboxSlideshowDelay">>,
       <<"DisplayMode", "ImageLightboxDisplayModeKey">>,
       <<"ScaleUp", "ImageLightboxScaleUp">>,
       <<"ResetZoomOnNav", "ImageLightboxResetZoomOnNav">>,
       <<"ScrollMode", "ImageLightboxScrollModeKey">>,
       <<"ScrollAttemptsBeforeChange", "ImageLightboxScrollAttemptsBeforeChange">> >>

\* lines 562-568
DisableDropdownCreateFields ==
    << <<"Performer", "DisableDropdownCreatePerformer">>,
       <<"Studio", "DisableDropdownCreateStudio">>,
       <<"Tag", "DisableDropdownCreateTag">>,
       <<"Movie", "DisableDropdownCreateMovie">> >>

\* lines 570-572
HandyFields ==
    << <<"HandyKey", "HandyKey">>,
       <<"FunscriptOffset", "FunscriptOffset">>,
       <<"UseStashHostedFunscript", "UseStashHostedFunscript">> >>

\* then(st, next): next when the handler is still running, st when it returned
Then(st, next) == IF st.status = "run" THEN next ELSE st

RunInterface(st, input, env) ==
    LET s1  == setConfigAll(st, input, InterfaceFields, 1)
        s2  == setConfigNested(s1, input, "ImageLightbox", ImageLightboxFields)
        s3  == SetFile(s2, input, "CSS", "css")
        s4  == setConfig(s3, input, "CSSEnabled", "CSSEnabled")
        s5  == SetFile(s4, input, "Javascript", "javascript")
        s6  == setConfig(s5, input, "JavascriptEnabled", "JavascriptEnabled")
        s7  == SetFile(s6, input, "CustomLocales", "customLocales")
        s8  == setConfig(s7, input, "CustomLocalesEnabled", "CustomLocalesEnabled")
        s9  == setConfigNested(s8, input, "DisableDropdownCreate",
                               DisableDropdownCreateFields)
        s10 == setConfigAll(s9, input, HandyFields, 1)
        s11 == WriteOrFail(s10, env)
    IN  Then(s11, Return(s11))

\* if input.Enabled != nil { ...; refresh = true }
DlnaEnabled(st, input) ==
    IF Has(input, "Enabled")
    THEN Raise(SetAndRecord(st, "DLNADefaultEnabled", input["Enabled"]), {"refresh"})
    ELSE st

RunDlna(st, input, env) ==
    LET s1 == setConfig(st, input, "ServerName", "DLNAServerName")
        s2 == setConfig(s1, input, "WhitelistedIPs", "DLNADefaultIPWhitelist")
        s3 == setConfig(s2, input, "VideoSortOrder", "DLNAVideoSortOrder")
        s4 == setConfig(s3, input, "Port", "DLNAPort")
        s5 == DlnaEnabled(s4, input)
        s6 == setConfig(s5, input, "Interfaces", "DLNAInterfaces")
        s7 == WriteOrFail(s6, env)
    IN  Then(s7, Return(InvokeIf(s7, "refresh", "RefreshDLNA")))

\* ScraperUserAgent and ScraperCDPPath: set, record, refreshScraperCache = true
ScraperField(st, input, field, key) ==
    IF Has(input, field)
    THEN Raise(SetAndRecord(st, key, input[field]), {"refreshScraperCache"})
    ELSE st

ExcludeTagPatterns(st, input) ==
    PatternList(st, input, "ExcludeTagPatterns", "ScraperExcludeTagPatterns")

\* RefreshScraperCache is invoked before c.Write()
RunScraping(st, input, env) ==
    LET s1 == ScraperField(st, input, "ScraperUserAgent", "ScraperUserAgent")
        s2 == ScraperField(s1, input, "ScraperCDPPath", "ScraperCDPPath")
        s3 == ExcludeTagPatterns(s2, input)
        s4 == Then(s3, setConfig(s3, input, "ScraperCertCheck", "ScraperCertCheck"))
        s5 == Then(s4, InvokeIf(s4, "refreshScraperCache", "RefreshScraperCache"))
        s6 == Then(s5, WriteOrFail(s5, env))
    IN  Then(s6, Return(s6))

\* lines 680-703 (input.Scan is stored as its embedded ScanMetadataOptions)
DefaultsFields ==
    << <<"Identify", "DefaultIdentifySettings">>,
       <<"Scan", "DefaultScanSettings">>,
       <<"AutoTag", "DefaultAutoTagSettings">>,
       <<"Generate", "DefaultGenerateSettings">>,
       <<"DeleteFile", "DeleteFileDefault">>,
       <<"DeleteGenerated", "DeleteGeneratedDefault">> >>

RunDefaults(st, input, env) ==
    LET s1 == setConfigAll(st, input, DefaultsFields, 1)
        s2 == WriteOrFail(s1, env)
    IN  Then(s2, Return(s2))

\* manager.GenerateAPIKey(username): a token bound to the username
GenerateAPIKeyFor(username) ==
    CASE username = "admin" -> "key_admin"
      [] username = "user2" -> "key_user2"
      [] OTHER              -> "key_other"

\* mutant: a failed generation clears the stored key and commits
RunGenerateAPIKey_ClearOnFailure(st, input, env) ==
    LET generate  == (~Has(input, "Clear") \/ ~input["Clear"]) /\ st.mem["Username"] # ""
        newAPIKey == IF generate /\ env.keyOk
                     THEN GenerateAPIKeyFor(st.mem["Username"]) ELSE ""
        s1 == [SetAndRecord(st, "ApiKey", newAPIKey) EXCEPT !.ret = newAPIKey]
        s2 == WriteOrFail(s1, env)
    IN  IF generate /\ ~env.keyOk
        THEN Then(s2, Fail(s2, "GenerateAPIKeyFailed", "", "record"))
        ELSE Then(s2, Return(s2))

\* mutant: with no key to issue the stored key is left as it is
RunGenerateAPIKey_KeepKey(st, input, env) ==
    LET generate  == (~Has(input, "Clear") \/ ~input["Clear"]) /\ st.mem["Username"] # ""
        newAPIKey == IF generate THEN GenerateAPIKeyFor(st.mem["Username"]) ELSE ""
    IN  IF generate /\ ~env.keyOk
        THEN [Fail(st, "GenerateAPIKeyFailed", "", "record") EXCEPT !.ret = ""]
        ELSE LET s1 == IF generate
                       THEN [SetAndRecord(st, "ApiKey", newAPIKey) EXCEPT !.ret = newAPIKey]
                       ELSE st
                 s2 == WriteOrFail(s1, env)
             IN  Then(s2, Return(s2))

\* env.keyOk: manager.GenerateAPIKey returns no error.  The result is the
\* string newAPIKey, returned with every error but the generation error
RunGenerateAPIKey(st, input, env) ==
    LET generate  == (~Has(input, "Clear") \/ ~input["Clear"]) /\ st.mem["Username"] # ""
        newAPIKey == IF generate THEN GenerateAPIKeyFor(st.mem["Username"]) ELSE ""
    IN  IF generate /\ ~env.keyOk
        THEN [Fail(st, "GenerateAPIKeyFailed", "", "record") EXCEPT !.ret = ""]
        ELSE LET s1 == [SetAndRecord(st, "ApiKey", newAPIKey) EXCEPT !.ret = newAPIKey]
                 s2 == WriteOrFail(s1, env)
             IN  Then(s2, Return(s2))

\* mutant: the blob is stored for every plugin identifier
RunPlugin_EveryPlugin(st, pluginID, input, env) ==
    LET s0 == [st EXCEPT !.mem = [k \in DOMAIN st.mem |->
                                    IF k \in {"Plugins.p1", "Plugins.p2"}
                                    THEN input ELSE st.mem[k]]]
        s1 == Record(SetPluginConfiguration(s0, pluginID, input), pluginID, input)
        s2 == WriteOrFail(s1, env)
    IN  Then(s2, Return(s2))

\* c.SetPluginConfiguration(pluginID, input); localConfig[pluginID] = input
RunPlugin(st, pluginID, input, env) ==
    LET s1 == Record(SetPluginConfiguration(st, pluginID, input), pluginID, input)
        s2 == WriteOrFail(s1, env)
    IN  Then(s2, Return(s2))

(***************************************************************************)
(* The UI configuration is a nested mapping: a blob maps each of its keys   *)
(* to a leaf, Leaf(n), or to another blob.                                 *)
(***************************************************************************)
Leaf(n) == [leaf |-> n]

IsMap(v) == "leaf" \notin DOMAIN v

\* utils.MergeMaps(dest, src): src merged into dest, key by key
RECURSIVE MergeMaps(_, _)
MergeMaps(dest, src) ==
    [k \in (DOMAIN dest) \cup (DOMAIN src) |->
        IF k \notin DOMAIN src THEN dest[k]
        ELSE IF k \in DOMAIN dest /\ IsMap(dest[k]) /\ IsMap(src[k])
             THEN MergeMaps(dest[k], src[k])
             ELSE src[k]]

\* utils.NestedMap(m).Set(key, value), key being the path f1.f2...fn
RECURSIVE NestedSet(_, _, _)
NestedSet(m, path, value) ==
    IF Len(path) = 1 THEN Put(m, path[1], value)
    ELSE LET sub == IF path[1] \in DOMAIN m /\ IsMap(m[path[1]])
                    THEN m[path[1]] ELSE Empty
         IN  Put(m, path[1], NestedSet(sub, Tail(path), value))

\* mutant: the partial blob replaces the stored one
RunUI_PartialReplaces(st, args, env) ==
    LET s1 == IF Has(args, "input") THEN SetAndRecord(st, "UI", args["input"]) ELSE st
        s2 == IF Has(args, "partial") THEN Set(s1, "UI", args["partial"]) ELSE s1
        s3 == WriteOrFail(s2, env)
        s4 == [s3 EXCEPT !.ret = s3.mem["UI"]]
    IN  Then(s4, Return(s4))

\* ConfigureUI(input, partial): args maps "input" and "partial" to the
\* blobs that are non-nil.  The merged blob is set in the store, not
\* recorded in localConfig; the result is c.GetUIConfiguration()
RunUI(st, args, env) ==
    LET s1 == IF Has(args, "input") THEN SetAndRecord(st, "UI", args["input"]) ELSE st
        s2 == IF Has(args, "partial")
              THEN Set(s1, "UI", MergeMaps(s1.mem["UI"], args["partial"]))
              ELSE s1
        s3 == WriteOrFail(s2, env)
        s4 == [s3 EXCEPT !.ret = s3.mem["UI"]]
    IN  Then(s4, Return(s4))

\* ConfigureUISetting(key, value): its own localConfig is dropped, the call
\* ends in ConfigureUI(cfg, nil)
RunUISetting(st, key, value, env) ==
    RunUI(st, [input |-> NestedSet(st.mem["UI"], key, value)], env)

(***************************************************************************)
(* The configuration document: its keys and the documents the process may  *)
(* have loaded at startup.                                                 *)
(***************************************************************************)
KeysOf(pairs) == {pairs[i][2] : i \in 1..Len(pairs)}

GeneralKeys ==
    {"Stash", "Database", "BackupDirectoryPath", "Generated", "ScrapersPath",
     "PluginsPath", "Metadata", "Cache", "BlobsPath", "BlobsStorage", "FFMpegPath",
     "FFProbePath", "VideoFileNamingAlgorithm", "GalleryCoverRegex", "Username",
     "Password", "LogLevel", "Exclude", "ImageExclude",
     "CustomPerformerImageLocation", "StashBoxes", "ScraperPackageSources",
     "PluginPackageSources"}
    \cup KeysOf(TuningFields) \cup KeysOf(SessionLogFields)
    \cup KeysOf(ExtensionFields) \cup KeysOf(TranscodeArgFields)

InterfaceKeys ==
    KeysOf(InterfaceFields) \cup KeysOf(ImageLightboxFields)
    \cup KeysOf(DisableDropdownCreateFields) \cup KeysOf(HandyFields)
    \cup {"CSSEnabled", "JavascriptEnabled", "CustomLocalesEnabled"}

DlnaKeys ==
    {"DLNAServerName", "DLNADefaultIPWhitelist", "DLNAVideoSortOrder", "DLNAPort",
     "DLNADefaultEnabled", "DLNAInterfaces"}

ScrapingKeys ==
    {"ScraperUserAgent", "ScraperCDPPath", "ScraperExcludeTagPatterns",
     "ScraperCertCheck"}

PluginIDs == {"p1", "p2"}

AllKeys ==
    GeneralKeys \cup InterfaceKeys \cup DlnaKeys \cup ScrapingKeys
    \cup KeysOf(DefaultsFields) \cup {"ApiKey", "UI"}
    \cup {PluginKey(p) : p \in PluginIDs}

\* an instance without credentials (an API key issued earlier is still stored)
FreshDoc ==
    [k \in AllKeys |->
        CASE k = "Stash"                    -> <<"lib0", "old">>
          [] k = "Database"                 -> "db0.sqlite"
          [] k \in {"Generated", "ScrapersPath", "PluginsPath"} -> "dirA"
          [] k \in {"BackupDirectoryPath", "Metadata", "Cache", "BlobsPath"} -> ""
          [] k = "BlobsStorage"             -> "DATABASE"
          [] k \in {"FFMpegPath", "FFProbePath"} -> ""
          [] k = "VideoFileNamingAlgorithm" -> "OSHASH"
          [] k = "CalculateMD5"             -> FALSE
          [] k = "GalleryCoverRegex"        -> "cover.*"
          [] k \in {"Username", "Password"} -> ""
          [] k = "ApiKey"                   -> "key_old"
          [] k = "LogLevel"                 -> "Info"
          [] k \in {"Exclude", "ImageExclude", "ScraperExcludeTagPatterns"} -> <<>>
          [] k = "UI"                       -> Empty
          [] OTHER                          -> "v0"]

\* an instance with credentials, external binaries and filesystem blobs
ConfiguredDoc ==
    [k \in AllKeys |->
        CASE k = "Database"                 -> "db1.db"
          [] k \in {"BackupDirectoryPath", "Generated", "ScrapersPath", "PluginsPath",
                    "Metadata", "Cache", "BlobsPath"} -> "dirB"
          [] k = "BlobsStorage"             -> "FILESYSTEM"
          [] k = "FFMpegPath"               -> "ff1"
          [] k = "FFProbePath"              -> "fp1"
          [] k = "CalculateMD5"             -> TRUE
          [] k = "Username"                 -> "admin"
          [] k = "Password"                 -> "hash_pw1"
          [] k = "LogLevel"                 -> "Debug"
          [] k = "UI"                       -> [a |-> [y |-> Leaf(2)], b |-> Leaf(3)]
          [] OTHER                          -> FreshDoc[k]]

\* how the process may have started: the instance without credentials with
\* nothing overridden, the configured one with three keys supplied by the
\* environment
Startups ==
    {[doc |-> FreshDoc, overrides |-> {}],
     [doc |-> ConfiguredDoc, overrides |-> {"Database", "Cache", "FFMpegPath"}]}

InitFiles == [f \in {"css", "javascript", "customLocales"} |-> ""]

(***************************************************************************)
(* Inputs: partial update records with at most MaxPresent fields present,  *)
(* each present field drawn from the candidate values of that field.       *)
(***************************************************************************)
RECURSIVE SubsetsUpTo(_, _)
SubsetsUpTo(S, n) ==
    IF n = 0 THEN {{}}
    ELSE LET prev == SubsetsUpTo(S, n - 1)
         IN  prev \cup {T \cup {x} : T \in prev, x \in S}

RECURSIVE Records(_, _)
Records(values, D) ==
    IF D = {} THEN {Empty}
    ELSE LET f == CHOOSE x \in D : TRUE
         IN  {Put(m, f, v) : m \in Records(values, D \ {f}), v \in values[f]}

Inputs(values) ==
    UNION {Records(values, D) : D \in SubsetsUpTo(DOMAIN values, MaxPresent)}

DirValues == {"", "dirB", "nodir"}

GeneralValues ==
    [Stashes                      |-> {<<"old", "lib1">>, <<"lib0", "nolib">>},
     DatabasePath                 |-> {"db1.db", "db1.txt"},
     BackupDirectoryPath          |-> DirValues,
     GeneratedPath                |-> {"dirB", "nodir"},
     ScrapersPath                 |-> {"dirB", "nodir"},
     PluginsPath                  |-> {"dirB", "nodir"},
     MetadataPath                 |-> DirValues,
     CachePath                    |-> DirValues,
     BlobsPath                    |-> DirValues,
     BlobsStorage                 |-> {"DATABASE", "FILESYSTEM"},
     FfmpegPath                   |-> {"", "ff1", "ffbad"},
     FfprobePath                  |-> {"fp1", "fpbad"},
     VideoFileNamingAlgorithm     |-> {"MD5", "OSHASH"},
     CalculateMd5                 |-> BOOLEAN,
     ParallelTasks                |-> {"v1"},
     GalleryCoverRegex            |-> {"cover.*", "("},
     Username                     |-> {"", "admin"},
     Password                     |-> {"", "pw1", "hash_pw1"},
     MaxSessionAge                |-> {"v1"},
     LogLevel                     |-> {"Info", "Debug"},
     Excludes                     |-> {<<"a.*">>, <<"a.*", "(">>},
     ImageExcludes                |-> {<<"a.*">>, <<"(">>},
     VideoExtensions              |-> {"v1"},
     CustomPerformerImageLocation |-> {"loc1"},
     StashBoxes                   |-> {"boxes_ok", "boxes_bad"},
     PythonPath                   |-> {"v1"},
     ScraperPackageSources        |-> {"src1"},
     PluginPackageSources         |-> {"src1"}]

GeneralInputs == Inputs(GeneralValues)

InterfaceValues ==
    [MenuItems             |-> {"v1"},
     Language              |-> {"v1"},
     ImageLightbox         |-> Inputs([SlideshowDelay |-> {"v1"}, ScaleUp |-> {"v1"}]),
     CSS                   |-> {"css1"},
     CSSEnabled            |-> {"v1"},
     Javascript            |-> {"js1"},
     CustomLocales         |-> {"loc1"},
     DisableDropdownCreate |-> Inputs([Performer |-> {"v1"}, Movie |-> {"v1"}]),
     HandyKey              |-> {"v1"}]

InterfaceInputs == Inputs(InterfaceValues)

DlnaValues ==
    [ServerName     |-> {"v1"},
     WhitelistedIPs |-> {"v1"},
     VideoSortOrder |-> {"v1"},
     Port           |-> {"v1"},
     Enabled        |-> {"v0", "v1"},
     Interfaces     |-> {"v1"}]

DlnaInputs == Inputs(DlnaValues)

ScrapingValues ==
    [ScraperUserAgent   |-> {"v1"},
     ScraperCDPPath     |-> {"v1"},
     ExcludeTagPatterns |-> {<<"tag.*">>, <<"tag.*", "(">>},
     ScraperCertCheck   |-> {"v1"}]

ScrapingInputs == Inputs(ScrapingValues)

DefaultsValues ==
    [Identify        |-> {"v1"},
     Scan            |-> {"v1"},
     AutoTag         |-> {"v1"},
     Generate        |-> {"v1"},
     DeleteFile      |-> {"v1"},
     DeleteGenerated |-> {"v1"}]

DefaultsInputs == Inputs(DefaultsValues)

GenerateAPIKeyInputs == Inputs([Clear |-> BOOLEAN])

PluginBlobs == {"blob1", "blob2"}

\* ConfigureUI: a full blob, or partial blobs that add a nested key, put a
\* leaf where a mapping is, and put a mapping where a leaf is
UIValues ==
    [input   |-> {[c |-> Leaf(4)]},
     partial |-> {[a |-> [x |-> Leaf(1)]], [a |-> Leaf(5)], [b |-> [z |-> Leaf(1)]]}]

UIInputs == Inputs(UIValues)

\* ConfigureUISetting: the keys "b" and "a.x"
UISettingKeys == {<<"b">>, <<"a", "x">>}

(***************************************************************************)
(* The state machine.  Under Spec one mutation call is made on the store   *)
(* the process started with; the call is one atomic action.                *)
(***************************************************************************)
\* what the environment decides during a call
Env(writeOk, repoOk, keyOk) == [writeOk |-> writeOk, repoOk |-> repoOk, keyOk |-> keyOk]

\* the part of a finished call that `last` keeps
Outcome(st) ==
    [local |-> st.local, wrote |-> st.wrote, flags |-> st.flags, events |-> st.events,
     status |-> st.status, err |-> st.err, errKey |-> st.errKey,
     payload |-> st.payload, result |-> st.result, ret |-> st.ret]

NoCall ==
    [handler |-> "none", n |-> 0, input |-> Empty, plugin |-> "", repoOk |-> TRUE,
     keyOk |-> TRUE, pre |-> FreshDoc, preDisk |-> FreshDoc,
     out |-> Outcome(NewCall(FreshDoc, FreshDoc, InitFiles))]

Idle == [c \in {} |-> TRUE]

Init ==
    /\ \E s \in Startups : mem = s.doc /\ overrides = s.overrides
    /\ disk = mem
    /\ files = InitFiles
    /\ allowReadOnly \in BOOLEAN
    /\ last = NoCall
    /\ inflight = Idle

\* the handler's effect on the store and what it returned
Finish(handler, input, plugin, env, st) ==
    /\ mem' = st.mem
    /\ disk' = st.disk
    /\ files' = st.files
    /\ last' = [handler |-> handler, n |-> last.n + 1, input |-> input,
                plugin |-> plugin, repoOk |-> env.repoOk, keyOk |-> env.keyOk,
                pre |-> mem, preDisk |-> disk, out |-> Outcome(st)]
    /\ UNCHANGED <<overrides, allowReadOnly, inflight>>

NoCallYet == last.handler = "none"

ConfigureGeneral ==
    /\ NoCallYet
    /\ \E input \in GeneralInputs, writeOk \in BOOLEAN :
         \E repoOk \in (IF Has(input, "VideoFileNamingAlgorithm") THEN BOOLEAN ELSE {TRUE}) :
            LET env == Env(writeOk, repoOk, TRUE)
            IN  Finish("ConfigureGeneral", input, "", env,
                       RunGeneral(1, NewCall(mem, disk, files), input, env))

ConfigureInterface ==
    /\ NoCallYet
    /\ \E input \in InterfaceInputs, writeOk \in BOOLEAN :
         LET env == Env(writeOk, TRUE, TRUE)
         IN  Finish("ConfigureInterface", input, "", env,
                    RunInterface(NewCall(mem, disk, files), input, env))

ConfigureDlna ==
    /\ NoCallYet
    /\ \E input \in DlnaInputs, writeOk \in BOOLEAN :
         LET env == Env(writeOk, TRUE, TRUE)
         IN  Finish("ConfigureDlna", input, "", env,
                    RunDlna(NewCall(mem, disk, files), input, env))

ConfigureScraping ==
    /\ NoCallYet
    /\ \E input \in ScrapingInputs, writeOk \in BOOLEAN :
         LET env == Env(writeOk, TRUE, TRUE)
         IN  Finish("ConfigureScraping", input, "", env,
                    RunScraping(NewCall(mem, disk, files), input, env))

ConfigureDefaults ==
    /\ NoCallYet
    /\ \E input \in DefaultsInputs, writeOk \in BOOLEAN :
         LET env == Env(writeOk, TRUE, TRUE)
         IN  Finish("ConfigureDefaults", input, "", env,
                    RunDefaults(NewCall(mem, disk, files), input, env))

GenerateAPIKey ==
    /\ NoCallYet
    /\ \E input \in GenerateAPIKeyInputs, writeOk \in BOOLEAN, keyOk \in BOOLEAN :
         LET env == Env(writeOk, TRUE, keyOk)
         IN  Finish("GenerateAPIKey", input, "", env,
                    RunGenerateAPIKey(NewCall(mem, disk, files), input, env))

ConfigurePlugin ==
    /\ NoCallYet
    /\ \E pluginID \in PluginIDs, input \in PluginBlobs, writeOk \in BOOLEAN :
         LET env == Env(writeOk, TRUE, TRUE)
         IN  Finish("ConfigurePlugin", input, pluginID, env,
                    RunPlugin(NewCall(mem, disk, files), pluginID, input, env))

ConfigureUI ==
    /\ NoCallYet
    /\ \E args \in UIInputs, writeOk \in BOOLEAN :
         LET env == Env(writeOk, TRUE, TRUE)
         IN  Finish("ConfigureUI", args, "", env,
                    RunUI(NewCall(mem, disk, files), args, env))

ConfigureUISetting ==
    /\ NoCallYet
    /\ \E key \in UISettingKeys, writeOk \in BOOLEAN :
         LET env == Env(writeOk, TRUE, TRUE)
         IN  Finish("ConfigureUISetting", [key |-> key, value |-> Leaf(7)], "", env,
                    RunUISetting(NewCall(mem, disk, files), key, Leaf(7), env))

Next ==
    \/ ConfigureGeneral
    \/ ConfigureInterface
    \/ ConfigureDlna
    \/ ConfigureScraping
    \/ ConfigureDefaults
    \/ GenerateAPIKey
    \/ ConfigurePlugin
    \/ ConfigureUI
    \/ ConfigureUISetting

Spec == Init /\ [][Next]_vars

(***************************************************************************)
(* SpecConc: two callers run ConfigureGeneral at the same time.  The       *)
(* handler takes no lock, so the store's accessors are the atomic units:   *)
(* a caller executes one step of GeneralStep at a time.  A step whose      *)
(* fields are all nil touches nothing shared and is passed over.           *)
(***************************************************************************)
FieldsOf(pairs) == {pairs[i][1] : i \in 1..Len(pairs)}

\* the input fields step i of ConfigureGeneral reads
StepFields(i) ==
    CASE i = 1  -> {"Stashes"}
      [] i = 2  -> {"DatabasePath"}
      [] i = 3  -> {"BackupDirectoryPath"}
      [] i = 4  -> {"GeneratedPath"}
      [] i = 5  -> {"ScrapersPath"}
      [] i = 6  -> {"PluginsPath"}
      [] i = 7  -> {"MetadataPath"}
      [] i = 8  -> {"CachePath"}
      [] i = 9  -> {"BlobsPath"}
      [] i = 10 -> {"BlobsStorage"}
      [] i = 11 -> {"FfmpegPath"}
      [] i = 12 -> {"FfprobePath"}
      [] i = 13 -> {"VideoFileNamingAlgorithm"}
      [] i = 14 -> FieldsOf(TuningFields)
      [] i = 15 -> {"GalleryCoverRegex"}
      [] i = 16 -> {"Username"}
      [] i = 17 -> {"Password"}
      [] i = 18 -> FieldsOf(SessionLogFields)
      [] i = 19 -> {"LogLevel"}
      [] i = 20 -> {"Excludes"}
      [] i = 21 -> {"ImageExcludes"}
      [] i = 22 -> FieldsOf(ExtensionFields)
      [] i = 23 -> {"CustomPerformerImageLocation"}
      [] i = 24 -> {"StashBoxes"}
      [] i = 25 -> FieldsOf(TranscodeArgFields)
      [] i = 26 -> {"ScraperPackageSources"}
      [] i = 27 -> {"PluginPackageSources"}
      [] OTHER  -> {}

\* step i acts on the store: c.Write(), the refresh dispatch, or a field step
\* whose field is present
Active(input, i) == i >= 28 \/ StepFields(i) \cap DOMAIN input # {}

\* the first active step from i on
NextActive(input, i) ==
    IF i > NGeneralSteps THEN i
    ELSE CHOOSE j \in i..NGeneralSteps :
            Active(input, j) /\ \A k \in i..(j - 1) : ~Active(input, k)

Callers == {"A", "B"}

ConcValues ==
    [ScrapersPath  |-> {"dirB"},
     PluginsPath   |-> {"dirB", "nodir"},
     FfmpegPath    |-> {"ff1"},
     ParallelTasks |-> {"v1"}]

ConcInputs == Inputs(ConcValues)

NotStarted ==
    [pc |-> 0, input |-> Empty, env |-> Env(TRUE, TRUE, TRUE),
     loc |-> Outcome(NewCall(FreshDoc, FreshDoc, InitFiles))]

InitConc ==
    /\ mem = FreshDoc
    /\ disk = mem
    /\ files = InitFiles
    /\ overrides = {}
    /\ allowReadOnly \in BOOLEAN
    /\ last = NoCall
    /\ inflight = [c \in Callers |-> NotStarted]

\* the caller's call state: its locals over the shared store
Resume(c) == [mem |-> mem, disk |-> disk, files |-> files] @@ inflight[c].loc

\* a request arrives and its handler starts
Begin(c) ==
    /\ inflight[c].pc = 0
    /\ \E input \in ConcInputs, writeOk \in BOOLEAN :
         inflight' = [inflight EXCEPT ![c] =
                         [pc |-> NextActive(input, 1), input |-> input,
                          env |-> Env(writeOk, TRUE, TRUE),
                          loc |-> Outcome(NewCall(mem, disk, files))]]
    /\ UNCHANGED <<mem, disk, files, overrides, allowReadOnly, last>>

\* the caller executes its next step
StepCall(c) ==
    LET r == inflight[c]
    IN  /\ r.pc \in 1..NGeneralSteps
        /\ r.loc.status = "run"
        /\ LET st == GeneralStep(r.pc, Resume(c), r.input, r.env)
           IN  /\ mem' = st.mem
               /\ disk' = st.disk
               /\ files' = st.files
               /\ inflight' = [inflight EXCEPT ![c] =
                                  [r EXCEPT !.pc = NextActive(r.input, r.pc + 1),
                                            !.loc = Outcome(st)]]
        /\ UNCHANGED <<overrides, allowReadOnly, last>>

NextConc == \E c \in Callers : Begin(c) \/ StepCall(c)

SpecConc == InitConc /\ [][NextConc]_vars

(***************************************************************************)
(* SpecSeq: mutation calls made one after the other on the same store, up  *)
(* to MaxCalls of them, each a whole handler call.  What a call that       *)
(* returned an error left in the in-memory document is there when the next *)
(* call starts.                                                            *)
(***************************************************************************)
SeqValues ==
    [ScrapersPath |-> {"dirB"},
     PluginsPath  |-> {"dirB", "nodir"},
     CachePath    |-> {"dirB"},
     BlobsPath    |-> {"", "dirB"},
     BlobsStorage |-> {"DATABASE", "FILESYSTEM"},
     FfmpegPath   |-> {"ff1", "ffbad"}]

SeqInputs == Inputs(SeqValues)

SeqInterfaceInputs == Inputs([Language |-> {"v1"}])

MoreCalls == last.n < MaxCalls

NextConfigureGeneral ==
    /\ MoreCalls
    /\ \E input \in SeqInputs, writeOk \in BOOLEAN :
         LET env == Env(writeOk, TRUE, TRUE)
         IN  Finish("ConfigureGeneral", input, "", env,
                    RunGeneral(1, NewCall(mem, disk, files), input, env))

NextConfigureInterface ==
    /\ MoreCalls
    /\ \E input \in SeqInterfaceInputs, writeOk \in BOOLEAN :
         LET env == Env(writeOk, TRUE, TRUE)
         IN  Finish("ConfigureInterface", input, "", env,
                    RunInterface(NewCall(mem, disk, files), input, env))

NextSeq ==
    \/ NextConfigureGeneral
    \/ NextConfigureInterface

SpecSeq == Init /\ [][NextSeq]_vars

(***************************************************************************)
(* Vocabulary of the properties.                                           *)
(***************************************************************************)
Out == last.out

IsGeneral == last.handler = "ConfigureGeneral"

\* <<field, key>> of every field of ConfigGeneralInput, in processing order
GeneralPairs ==
    << <<"Stashes", "Stash">>,
       <<"DatabasePath", "Database">>,
       <<"BackupDirectoryPath", "BackupDirectoryPath">>,
       <<"GeneratedPath", "Generated">>,
       <<"ScrapersPath", "ScrapersPath">>,
       <<"PluginsPath", "PluginsPath">>,
       <<"MetadataPath", "Metadata">>,
       <<"CachePath", "Cache">>,
       <<"BlobsPath", "BlobsPath">>,
       <<"BlobsStorage", "BlobsStorage">>,
       <<"FfmpegPath", "FFMpegPath">>,
       <<"FfprobePath", "FFProbePath">>,
       <<"VideoFileNamingAlgorithm", "VideoFileNamingAlgorithm">> >>
    \o TuningFields
    \o << <<"GalleryCoverRegex", "GalleryCoverRegex">>,
          <<"Username", "Username">>,
          <<"Password", "Password">> >>
    \o SessionLogFields
    \o << <<"LogLevel", "LogLevel">>,
          <<"Excludes", "Exclude">>,
          <<"ImageExcludes", "ImageExclude">> >>
    \o ExtensionFields
    \o << <<"CustomPerformerImageLocation", "CustomPerformerImageLocation">>,
          <<"StashBoxes", "StashBoxes">> >>
    \o TranscodeArgFields
    \o << <<"ScraperPackageSources", "ScraperPackageSources">>,
          <<"PluginPackageSources", "PluginPackageSources">> >>

\* the subsystem refresh hooks
RefreshHooks ==
    {"RefreshConfig", "RefreshScraperCache", "RefreshPluginCache", "RefreshFFMpeg",
     "RefreshStreamManager", "SetBlobStoreOptions", "RefreshScraperSourceManager",
     "RefreshPluginSourceManager", "RefreshDLNA", "SetLogLevel"}

Invoked(hook) == \E i \in 1..Len(Out.events) : Out.events[i] = hook

WriteCalled == Invoked("WriteOk") \/ Invoked("WriteFail")

\* the value the store holds after a setter was given `value` for `key`
Stored(key, value) ==
    IF key = "Password" /\ value # "" THEN hashPassword(value) ELSE value

\* the input supplies `field` with a value other than the stored one
Changes(field, key) == Has(last.input, field) /\ last.input[field] # last.pre[key]

\* some pattern of the list does not compile
BadList(patterns) == \E i \in 1..Len(patterns) : ~Compile(patterns[i])

(***************************************************************************)
(* The claims.                                                             *)
(***************************************************************************)
\* C1: for every key of the override set, a ConfigureGeneral call whose input
\* supplies the field mapped to that key returns ErrOverriddenConfig naming
\* the key and leaves the store's value for that key unchanged.  Stated here
\* is its second half, the one about the store: the value of an overridden
\* key whose field was supplied is what it was before the call.
C1_OverriddenKeyUnchanged ==
    \A i \in 1..Len(GeneralPairs) :
        (/\ IsGeneral
         /\ GeneralPairs[i][2] \in overrides
         /\ Has(last.input, GeneralPairs[i][1]))
        => mem[GeneralPairs[i][2]] = last.pre[GeneralPairs[i][2]]

\* C2: when c.Write() fails and the store allows a read-only config file,
\* the payload of the returned error holds exactly the keys and values the
\* call passed to a setter of the store.
C2_PayloadIsWhatWasSet ==
    Out.err = "ReadOnlyPayload" => Out.payload = Out.wrote

\* C3: in every handler a refresh hook is invoked only after the call's
\* c.Write() has returned success.
C3_HooksOnlyAfterCommit ==
    \A i \in 1..Len(Out.events) :
        Out.events[i] \in RefreshHooks
        => \E j \in 1..(i - 1) : Out.events[j] = "WriteOk"

\* the documents a serial execution of the calls in `rest` can leave on disk,
\* from store m and disk d
RECURSIVE SerialDisks(_, _, _)
SerialDisks(m, d, rest) ==
    {d} \cup UNION {
        LET st == RunGeneral(1, NewCall(m, d, InitFiles),
                             inflight[c].input, inflight[c].env)
        IN  SerialDisks(st.mem, st.disk, rest \ {c}) : c \in rest}

\* C4: when two mutation calls run concurrently, every document a commit
\* writes equals the result of applying whole calls in some serial order.
C4_CommitsAreSerial ==
    disk \in SerialDisks(FreshDoc, FreshDoc, {c \in Callers : inflight[c].pc > 0})

\* errors ConfigureGeneral returns from a field before VideoFileNamingAlgorithm
EarlierErrors ==
    {"PathNotFound", "ErrOverriddenConfig", "InvalidExtension", "EnsureDirFailed",
     "BlobsPathNotSet", "InvalidFFMpeg", "InvalidFFProbe"}

\* the CalculateMd5 of the call when it has one, the stored flag otherwise
PendingMD5 ==
    IF Has(last.input, "CalculateMd5") THEN last.input["CalculateMd5"]
    ELSE last.pre["CalculateMD5"]

ChangesToMD5 ==
    /\ IsGeneral
    /\ Changes("VideoFileNamingAlgorithm", "VideoFileNamingAlgorithm")
    /\ last.input["VideoFileNamingAlgorithm"] = "MD5"

\* C5: a ConfigureGeneral call that changes VideoFileNamingAlgorithm to MD5
\* fails, leaving the algorithm as it was, when the pending CalculateMd5 (the
\* call's value if it has one, else the stored flag) is false; when it is
\* true the MD5 rule does not reject the call, the algorithm is set once the
\* repository validation passes, and a call of these two fields alone whose
\* commit succeeds returns without error.
C5_MD5NeedsCalculateMD5 ==
    /\ (ChangesToMD5 /\ ~PendingMD5)
       => /\ Out.status = "err"
          /\ Out.err \in EarlierErrors \cup {"CalculateMD5Required"}
          /\ mem["VideoFileNamingAlgorithm"] = last.pre["VideoFileNamingAlgorithm"]
    /\ (ChangesToMD5 /\ PendingMD5)
       => /\ Out.err # "CalculateMD5Required"
          /\ (last.repoOk /\ Out.err \notin EarlierErrors)
             => /\ mem["VideoFileNamingAlgorithm"] = "MD5"
                /\ "VideoFileNamingAlgorithm" \in DOMAIN Out.local
          /\ (/\ last.repoOk
              /\ DOMAIN last.input \subseteq {"VideoFileNamingAlgorithm", "CalculateMd5"}
              /\ ~Invoked("WriteFail"))
             => Out.status = "ok" /\ disk["VideoFileNamingAlgorithm"] = "MD5"

\* C5's case: the stored flag is false, the call sets it and switches to MD5
C5_Witness ==
    /\ ChangesToMD5
    /\ ~last.pre["CalculateMD5"]
    /\ Has(last.input, "CalculateMd5") /\ last.input["CalculateMd5"]
    /\ Out.status = "ok"
    /\ mem["VideoFileNamingAlgorithm"] = "MD5"

\* C6: every error return of every handler carries a non-nil result record.
C6_ErrorCarriesResult ==
    Out.status = "err" => Out.result = "record"

\* C7: every field of the ConfigureGeneral input is optional: for any subset
\* of fields present the call returns (a result or an error, never a fault)
\* and the key of every absent field keeps its stored value.
C7_EveryFieldOptional ==
    IsGeneral
    => /\ Out.status \in {"ok", "err"}
       /\ \A i \in 1..Len(GeneralPairs) :
            ~Has(last.input, GeneralPairs[i][1])
            => mem[GeneralPairs[i][2]] = last.pre[GeneralPairs[i][2]]

\* the call submitted a pattern that does not compile, in the field of `key`
BadPatternFor(key) ==
    \/ /\ IsGeneral /\ key = "GalleryCoverRegex"
       /\ Has(last.input, "GalleryCoverRegex")
       /\ ~Compile(last.input["GalleryCoverRegex"])
    \/ /\ IsGeneral /\ key = "Exclude"
       /\ Has(last.input, "Excludes") /\ BadList(last.input["Excludes"])
    \/ /\ IsGeneral /\ key = "ImageExclude"
       /\ Has(last.input, "ImageExcludes") /\ BadList(last.input["ImageExcludes"])
    \/ /\ last.handler = "ConfigureScraping" /\ key = "ScraperExcludeTagPatterns"
       /\ Has(last.input, "ExcludeTagPatterns")
       /\ BadList(last.input["ExcludeTagPatterns"])

\* C8: a mutation that submits a pattern that does not compile returns a
\* validation error, does not write that pattern list to the store and never
\* calls c.Write(), so durable storage is unchanged by the call.
C8_BadPatternRejected ==
    \A key \in {"GalleryCoverRegex", "Exclude", "ImageExclude",
                "ScraperExcludeTagPatterns"} :
        BadPatternFor(key)
        => /\ Out.status = "err"
           /\ mem[key] = last.pre[key]
           /\ ~WriteCalled
           /\ disk = last.preDisk

FfmpegChanged ==
    \/ Changes("FfmpegPath", "FFMpegPath")
    \/ Changes("FfprobePath", "FFProbePath")

\* C9: in a ConfigureGeneral call that commits successfully, changing
\* FfmpegPath or FfprobePath invokes both RefreshFFMpeg and
\* RefreshStreamManager, whether or not CachePath is present.
C9_FfmpegRefreshesStreamManager ==
    (IsGeneral /\ Invoked("WriteOk") /\ FfmpegChanged)
    => Invoked("RefreshFFMpeg") /\ Invoked("RefreshStreamManager")

\* C9's case: the ffmpeg path changes, CachePath is absent, both hooks fire
C9_Witness ==
    /\ IsGeneral
    /\ Invoked("WriteOk")
    /\ Changes("FfmpegPath", "FFMpegPath")
    /\ ~Has(last.input, "CachePath")
    /\ Invoked("RefreshFFMpeg") /\ Invoked("RefreshStreamManager")

\* C10: when c.Write() fails the handler returns the serialized ChangeSet if
\* the store allows a read-only config file and the raw commit error
\* otherwise; in both cases ConfigureGeneral and ConfigureDlna invoke no
\* refresh hook, and the values set in the in-memory store stay set.
C10_CommitFailure ==
    (last.handler \in {"ConfigureGeneral", "ConfigureDlna"} /\ Invoked("WriteFail"))
    => /\ allowReadOnly => (Out.err = "ReadOnlyPayload" /\ Out.payload = Out.local)
       /\ ~allowReadOnly => Out.err = "WriteError"
       /\ \A i \in 1..Len(Out.events) : Out.events[i] \notin RefreshHooks
       /\ \A k \in DOMAIN Out.wrote : mem[k] = Stored(k, Out.wrote[k])

\* GenerateAPIKey is called without Clear while no username is stored
NoUsernameIssue ==
    /\ last.handler = "GenerateAPIKey"
    /\ last.pre["Username"] = ""
    /\ (~Has(last.input, "Clear") \/ ~last.input["Clear"])

\* C11, as stated: GenerateAPIKey called while the stored username is empty
\* (Clear absent or false) sets the stored API key to the empty string,
\* returns the empty string and returns no error.
C11_EmptyKeyNoError ==
    NoUsernameIssue
    => /\ mem["ApiKey"] = ""
       /\ Out.ret = ""
       /\ Out.status = "ok"

\* C11, amended: GenerateAPIKey called while the stored username is empty
\* (Clear absent or false) sets the stored API key to the empty string and
\* returns the empty string; it returns no error exactly when c.Write()
\* succeeds, and the commit error (or the serialized ChangeSet) otherwise.
C11_EmptyKeyErrorOnlyFromCommit ==
    NoUsernameIssue
    => /\ mem["ApiKey"] = ""
       /\ Out.ret = ""
       /\ Out.wrote = Put(Empty, "ApiKey", "")
       /\ ~Invoked("WriteFail") => (Out.status = "ok" /\ disk["ApiKey"] = "")
       /\ Invoked("WriteFail")
          => /\ Out.status = "err"
             /\ Out.err = (IF allowReadOnly THEN "ReadOnlyPayload" ELSE "WriteError")

\* C11's case: a key is stored, no username is, and the call commits
C11_Witness ==
    /\ NoUsernameIssue
    /\ last.pre["ApiKey"] # ""
    /\ Out.status = "ok"
    /\ mem["ApiKey"] = ""
    /\ disk["ApiKey"] = ""

\* ConfigureUI was called with a partial blob
PartialGiven == last.handler = "ConfigureUI" /\ Has(last.input, "partial")

\* the UI configuration the store holds when the partial blob is merged: the
\* input blob of the same call when it has one, the stored blob otherwise
UIBase == IF Has(last.input, "input") THEN last.input["input"] ELSE last.pre["UI"]

\* r holds every key of b and p; a key absent from p has b's value, a key of
\* p that is a mapping in both is merged the same way, any other key of p
\* has p's value
RECURSIVE IsMergeOf(_, _, _)
IsMergeOf(r, b, p) ==
    /\ DOMAIN r = (DOMAIN b) \cup (DOMAIN p)
    /\ \A k \in DOMAIN r :
         IF k \notin DOMAIN p THEN r[k] = b[k]
         ELSE IF k \in DOMAIN b /\ IsMap(b[k]) /\ IsMap(p[k])
              THEN IsMap(r[k]) /\ IsMergeOf(r[k], b[k], p[k])
              ELSE r[k] = p[k]

\* C12: ConfigureUI called with a partial blob merges it recursively into
\* the stored UI configuration: keys absent from the partial keep their
\* stored values, keys present are overwritten, nested mappings are merged
\* key by key; merging {"a":{"x":1}} into {"a":{"y":2},"b":3} leaves the
\* store holding {"a":{"x":1,"y":2},"b":3}.
C12_PartialIsMerged ==
    PartialGiven
    => /\ IsMergeOf(mem["UI"], UIBase, last.input["partial"])
       /\ (/\ ~Has(last.input, "input")
           /\ last.pre["UI"] = [a |-> [y |-> Leaf(2)], b |-> Leaf(3)]
           /\ last.input["partial"] = [a |-> [x |-> Leaf(1)]])
          => mem["UI"] = [a |-> [x |-> Leaf(1), y |-> Leaf(2)], b |-> Leaf(3)]

\* C12's case: the partial {"a":{"x":1}} is merged into {"a":{"y":2},"b":3}
\* and the merged blob is committed
C12_Witness ==
    /\ PartialGiven
    /\ ~Has(last.input, "input")
    /\ last.pre["UI"] = [a |-> [y |-> Leaf(2)], b |-> Leaf(3)]
    /\ last.input["partial"] = [a |-> [x |-> Leaf(1)]]
    /\ disk["UI"] = [a |-> [x |-> Leaf(1), y |-> Leaf(2)], b |-> Leaf(3)]

\* the step of ConfigureGeneral at which the call returns or faults
RECURSIVE ReturnStep(_, _, _, _)
ReturnStep(i, st, input, env) ==
    IF i > NGeneralSteps THEN NGeneralSteps
    ELSE LET s == GeneralStep(i, st, input, env)
         IN  IF s.status # "run" THEN i ELSE ReturnStep(i + 1, s, input, env)

\* the step at which the last ConfigureGeneral call returned
LastReturnStep ==
    ReturnStep(1, NewCall(last.pre, last.preDisk, InitFiles), last.input,
               Env(~Invoked("WriteFail"), last.repoOk, TRUE))

\* the position of `field` in the processing order
FieldIndex(field) ==
    CHOOSE i \in 1..Len(GeneralPairs) : GeneralPairs[i][1] = field

\* a ConfigureGeneral call returned an error from one of its fields
FieldFailure == IsGeneral /\ Out.status = "err" /\ ~WriteCalled

\* the position of the field whose check failed
FailingIndex == FieldIndex(CHOOSE f \in StepFields(LastReturnStep) : TRUE)

\* the store holds what the setter of `key` makes of `value` (a password
\* equal to the stored hash is compared equal and left as it is)
HoldsNew(key, value) == mem[key] = value \/ mem[key] = Stored(key, value)

\* C13: when a ConfigureGeneral call fails (override lock or validation) at
\* some field it returns immediately: no later field is applied, c.Write()
\* is not called, no refresh hook is invoked; the in-memory store holds the
\* new values of exactly the present fields that precede the failing field
\* in processing order, and the failing field's key keeps its value.
C13_FailureStopsTheCall ==
    FieldFailure
    => /\ \A e \in 1..Len(Out.events) : Out.events[e] \notin RefreshHooks
       /\ \A i \in 1..Len(GeneralPairs) :
            LET f == GeneralPairs[i][1]
                k == GeneralPairs[i][2]
            IN  IF i < FailingIndex /\ Has(last.input, f)
                THEN HoldsNew(k, last.input[f])
                ELSE mem[k] = last.pre[k]

\* the order in which ConfigureGeneral dispatches its hooks
DispatchOrder ==
    <<"RefreshConfig", "RefreshScraperCache", "RefreshPluginCache", "RefreshFFMpeg",
      "RefreshStreamManager", "SetBlobStoreOptions", "RefreshScraperSourceManager",
      "RefreshPluginSourceManager">>

Rank(hook) == CHOOSE i \in 1..Len(DispatchOrder) : DispatchOrder[i] = hook

\* the refresh flag that gates each hook but RefreshConfig
FlagOfHook ==
    [RefreshScraperCache         |-> "refreshScraperCache",
     RefreshPluginCache          |-> "refreshPluginCache",
     RefreshFFMpeg               |-> "refreshFfmpeg",
     RefreshStreamManager        |-> "refreshStreamManager",
     SetBlobStoreOptions         |-> "refreshBlobStorage",
     RefreshScraperSourceManager |-> "refreshScraperSource",
     RefreshPluginSourceManager  |-> "refreshPluginSource"]

\* the position of the successful c.Write() among the events of the call
CommitIndex == CHOOSE i \in 1..Len(Out.events) : Out.events[i] = "WriteOk"

\* C14: after a successful commit ConfigureGeneral invokes RefreshConfig and
\* the flagged hooks in one fixed order (RefreshConfig, scraper cache, plugin
\* cache, RefreshFFMpeg, RefreshStreamManager, blob-store options, scraper
\* source manager, plugin source manager); RefreshFFMpeg precedes
\* RefreshStreamManager and no hook is invoked twice in a call.
C14_DispatchOrder ==
    (IsGeneral /\ Invoked("WriteOk"))
    => /\ Out.events[CommitIndex + 1] = "RefreshConfig"
       /\ \A i \in (CommitIndex + 1)..Len(Out.events) :
            /\ \E r \in 1..Len(DispatchOrder) : DispatchOrder[r] = Out.events[i]
            /\ \A j \in (i + 1)..Len(Out.events) :
                 Rank(Out.events[i]) < Rank(Out.events[j])
       /\ \A i, j \in 1..Len(Out.events) : Out.events[i] = Out.events[j] => i = j
       /\ \A h \in DOMAIN FlagOfHook : Invoked(h) <=> FlagOfHook[h] \in Out.flags

\* C14's case: a call that changes the scrapers path and the ffmpeg path
\* commits and dispatches five hooks
C14_Witness ==
    /\ IsGeneral
    /\ Invoked("WriteOk")
    /\ Invoked("RefreshScraperCache")
    /\ Invoked("RefreshFFMpeg")
    /\ Invoked("RefreshStreamManager")
    /\ Invoked("RefreshScraperSourceManager")

\* the fields ConfigureGeneral compares with the stored value before acting
ComparedPairs ==
    << <<"DatabasePath", "Database">>,
       <<"BackupDirectoryPath", "BackupDirectoryPath">>,
       <<"GeneratedPath", "Generated">>,
       <<"ScrapersPath", "ScrapersPath">>,
       <<"PluginsPath", "PluginsPath">>,
       <<"MetadataPath", "Metadata">>,
       <<"CachePath", "Cache">>,
       <<"BlobsPath", "BlobsPath">>,
       <<"BlobsStorage", "BlobsStorage">>,
       <<"FfmpegPath", "FFMpegPath">>,
       <<"FfprobePath", "FFProbePath">>,
       <<"VideoFileNamingAlgorithm", "VideoFileNamingAlgorithm">>,
       <<"Username", "Username">>,
       <<"LogLevel", "LogLevel">> >>

\* the input without `field`
Without(input, field) == [f \in (DOMAIN input) \ {field} |-> input[f]]

\* the last ConfigureGeneral call, made again on the same store and in the
\* same environment with `field` absent
CallWithout(field) ==
    RunGeneral(1, NewCall(last.pre, last.preDisk, InitFiles),
               Without(last.input, field),
               Env(~Invoked("WriteFail"), last.repoOk, TRUE))

\* the call supplied `field` with the value the store already held for `key`
SameAsStored(field, key) ==
    IsGeneral /\ Has(last.input, field) /\ last.input[field] = last.pre[key]

\* C15: in ConfigureGeneral a compared field whose supplied value equals the
\* stored value is a no-op: its validation rules are not run, the setter is
\* not called, no ChangeSet entry is recorded for its key and no refresh
\* flag is set on its account.  The call does what it does with the field
\* absent.
C15_UnchangedFieldIsNoOp ==
    \A i \in 1..Len(ComparedPairs) :
        LET f == ComparedPairs[i][1]
            k == ComparedPairs[i][2]
        IN  SameAsStored(f, k)
            => LET without == CallWithout(f)
               IN  /\ k \notin DOMAIN Out.wrote
                   /\ k \notin DOMAIN Out.local
                   /\ mem[k] = last.pre[k]
                   /\ Out = Outcome(without)
                   /\ mem = without.mem
                   /\ disk = without.disk

\* C15's case: the database path supplied is the stored one, its key is
\* overridden, and the call succeeds
C15_Witness ==
    /\ SameAsStored("DatabasePath", "Database")
    /\ "Database" \in overrides
    /\ Out.status = "ok"
    /\ Out.local = Empty

FlagsIf(cond, flagset) == IF cond THEN flagset ELSE {}

\* the refresh flags the changes of the last call account for
ExpectedFlags ==
    FlagsIf(Changes("ScrapersPath", "ScrapersPath"),
            {"refreshScraperCache", "refreshScraperSource"})
    \cup FlagsIf(Changes("PluginsPath", "PluginsPath"),
                 {"refreshPluginCache", "refreshPluginSource"})
    \cup FlagsIf(Has(last.input, "ScraperPackageSources"), {"refreshScraperSource"})
    \cup FlagsIf(Has(last.input, "PluginPackageSources"), {"refreshPluginSource"})
    \cup FlagsIf(Changes("CachePath", "Cache"), {"refreshStreamManager"})
    \cup FlagsIf(Changes("BlobsPath", "BlobsPath") \/ Changes("BlobsStorage", "BlobsStorage"),
                 {"refreshBlobStorage"})
    \cup FlagsIf(FfmpegChanged, {"refreshFfmpeg"})

\* C16: in a ConfigureGeneral call that reaches c.Write() the refresh flags
\* are set exactly by these changes: ScrapersPath change sets scraper-cache
\* and scraper-source; PluginsPath change sets plugin-cache and
\* plugin-source; ScraperPackageSources present sets only scraper-source;
\* PluginPackageSources present sets only plugin-source; CachePath change
\* sets stream-manager; BlobsPath or BlobsStorage change sets blob-storage;
\* FfmpegPath or FfprobePath change sets ffmpeg (which the dispatch turns
\* into stream-manager as well).  A call that touches none of these fields
\* invokes none of the flag-gated hooks.
C16_FlagsFollowChanges ==
    (IsGeneral /\ WriteCalled)
    => /\ Invoked("WriteFail") => Out.flags = ExpectedFlags
       /\ Invoked("WriteOk")
          => /\ Out.flags = ExpectedFlags
                            \cup FlagsIf(FfmpegChanged, {"refreshStreamManager"})
             /\ \A h \in DOMAIN FlagOfHook :
                  Invoked(h) <=> FlagOfHook[h] \in
                       ExpectedFlags \cup FlagsIf(FfmpegChanged, {"refreshStreamManager"})
             /\ ExpectedFlags = {} => \A h \in DOMAIN FlagOfHook : ~Invoked(h)

\* C16's case: new scraper package sources and a changed plugins path flag
\* the scraper source manager but not the scraper cache
C16_Witness ==
    /\ IsGeneral
    /\ Invoked("WriteOk")
    /\ Has(last.input, "ScraperPackageSources")
    /\ Changes("PluginsPath", "PluginsPath")
    /\ Out.flags = {"refreshScraperSource", "refreshPluginCache", "refreshPluginSource"}
    /\ Invoked("RefreshScraperSourceManager")
    /\ ~Invoked("RefreshScraperCache")

\* the call selects the filesystem blob-storage type
SelectsFilesystem ==
    /\ IsGeneral
    /\ Has(last.input, "BlobsStorage")
    /\ last.input["BlobsStorage"] = "FILESYSTEM"

\* the blobs path once the BlobsPath field of the call has been processed
PendingBlobsPath ==
    IF Has(last.input, "BlobsPath") THEN last.input["BlobsPath"]
    ELSE last.pre["BlobsPath"]

\* C17: a ConfigureGeneral call that selects the filesystem blob-storage
\* type while the blobs path is empty fails and leaves BlobsStorage
\* unchanged; the blobs path is read after the BlobsPath field of the same
\* call has been applied, so a call that sets a non-empty BlobsPath and
\* selects filesystem storage together succeeds.
C17_FilesystemNeedsBlobsPath ==
    /\ (SelectsFilesystem /\ PendingBlobsPath = "")
       => /\ Out.status = "err"
          /\ mem["BlobsStorage"] = last.pre["BlobsStorage"]
    /\ (/\ SelectsFilesystem
        /\ DOMAIN last.input = {"BlobsPath", "BlobsStorage"}
        /\ last.input["BlobsPath"] # ""
        /\ validateDir("BlobsPath", last.input["BlobsPath"], TRUE) = "none"
        /\ ~Invoked("WriteFail"))
       => /\ Out.status = "ok"
          /\ mem["BlobsPath"] = last.input["BlobsPath"]
          /\ mem["BlobsStorage"] = "FILESYSTEM"

\* GenerateAPIKey was called with Clear set to true
ClearGiven ==
    /\ last.handler = "GenerateAPIKey"
    /\ Has(last.input, "Clear") /\ last.input["Clear"]

\* GenerateAPIKey was called without Clear while a username is stored
IssuesKey ==
    /\ last.handler = "GenerateAPIKey"
    /\ ~(Has(last.input, "Clear") /\ last.input["Clear"])
    /\ last.pre["Username"] # ""

\* C18: GenerateAPIKey with Clear true sets the stored API key to empty
\* whatever the username; with Clear absent or false and a non-empty
\* username it stores and returns a newly generated key bound to that
\* username; if key generation fails it returns the error without writing
\* the API key to the store and without calling c.Write().
C18_ClearIssueOrFail ==
    /\ ClearGiven
       => /\ mem["ApiKey"] = ""
          /\ Out.ret = ""
    /\ (IssuesKey /\ last.keyOk)
       => /\ mem["ApiKey"] = GenerateAPIKeyFor(last.pre["Username"])
          /\ mem["ApiKey"] # ""
          /\ Out.ret = mem["ApiKey"]
          /\ WriteCalled
    /\ (IssuesKey /\ ~last.keyOk)
       => /\ Out.status = "err"
          /\ Out.err = "GenerateAPIKeyFailed"
          /\ Out.ret = ""
          /\ mem["ApiKey"] = last.pre["ApiKey"]
          /\ Out.wrote = Empty
          /\ ~WriteCalled
          /\ disk = last.preDisk

\* C18's case: a username and a key are stored and key generation fails
C18_Witness ==
    /\ IssuesKey
    /\ ~last.keyOk
    /\ Out.err = "GenerateAPIKeyFailed"
    /\ mem["ApiKey"] = "key_old"

StashesGiven == IsGeneral /\ Has(last.input, "Stashes")

\* `path` is among the stash paths the store held before the call
IsStoredStash(path) ==
    \E j \in 1..Len(last.pre["Stash"]) : last.pre["Stash"][j] = path

\* some path of input.Stashes is new and does not exist
NewStashMissing ==
    \E i \in 1..Len(last.input["Stashes"]) :
        /\ ~IsStoredStash(last.input["Stashes"][i])
        /\ ~DirExists(last.input["Stashes"][i])

\* C19: in ConfigureGeneral with Stashes present only the paths that are not
\* among the stored stash paths are checked for existence: if a new path
\* does not exist the call fails before the stash list is written and before
\* any other field is applied; paths already stored are accepted even when
\* they no longer exist on disk.
C19_OnlyNewStashesChecked ==
    StashesGiven
    => /\ NewStashMissing
          => /\ Out.status = "err"
             /\ Out.err = "PathNotFound"
             /\ mem = last.pre
             /\ Out.wrote = Empty
             /\ Out.local = Empty
             /\ Out.events = <<>>
       /\ ~NewStashMissing
          => /\ Out.err # "PathNotFound"
             /\ mem["Stash"] = last.input["Stashes"]
             /\ Out.local["Stash"] = last.input["Stashes"]

\* C19's case: a list with a stored path that is gone from disk and a new
\* path that exists is accepted and committed
C19_Witness ==
    /\ StashesGiven
    /\ ~NewStashMissing
    /\ \E i \in 1..Len(last.input["Stashes"]) :
          IsStoredStash(last.input["Stashes"][i]) /\ ~DirExists(last.input["Stashes"][i])
    /\ \E i \in 1..Len(last.input["Stashes"]) : ~IsStoredStash(last.input["Stashes"][i])
    /\ Out.status = "ok"
    /\ disk["Stash"] = last.input["Stashes"]

IsPlugin == last.handler = "ConfigurePlugin"

\* C20: ConfigurePlugin(pluginID, input) replaces the stored configuration
\* blob of pluginID with input and leaves the blob of every other plugin
\* identifier, and every non-plugin key, unchanged.
C20_OnlyThatPluginChanges ==
    IsPlugin
    => /\ mem[PluginKey(last.plugin)] = last.input
       /\ \A k \in AllKeys \ {PluginKey(last.plugin)} : mem[k] = last.pre[k]
       /\ files = InitFiles
       /\ ~Invoked("WriteFail") => disk = mem

\* C20's case: the blob of p1 is replaced and committed, that of p2 stays
C20_Witness ==
    /\ IsPlugin
    /\ last.plugin = "p1"
    /\ last.pre[PluginKey("p1")] # last.input
    /\ disk[PluginKey("p1")] = last.input
    /\ disk[PluginKey("p2")] = last.pre[PluginKey("p2")]
    /\ Out.status = "ok"

\* the hook that reloads each refresh-governed key
HookOfKey ==
    [ScrapersPath |-> "RefreshScraperCache",
     PluginsPath  |-> "RefreshPluginCache",
     Cache        |-> "RefreshStreamManager",
     BlobsPath    |-> "SetBlobStoreOptions",
     FFMpegPath   |-> "RefreshFFMpeg",
     FFProbePath  |-> "RefreshFFMpeg"]

\* `hook` is invoked after the successful c.Write() of the last call
InvokedAfterCommit(hook) ==
    \E i \in (CommitIndex + 1)..Len(Out.events) : Out.events[i] = hook

\* C21: across any sequence of ConfigureGeneral calls, whenever a successful
\* commit changes the durably stored value of a refresh-governed key
\* (scrapers path, plugins path, cache path, blobs path, ffmpeg or ffprobe
\* path), the matching refresh hook is invoked after that commit and before
\* the call returns, also when the new value was put into the in-memory
\* store by an earlier call that failed validation or commit.
C21_PersistedChangeIsRefreshed ==
    (IsGeneral /\ Invoked("WriteOk"))
    => \A k \in DOMAIN HookOfKey :
          disk[k] # last.preDisk[k] => InvokedAfterCommit(HookOfKey[k])

\* the document keys the last call passed to a setter of the store
SetKeys ==
    {IF k \in PluginIDs THEN PluginKey(k) ELSE k : k \in DOMAIN Out.wrote}

\* C22: after any sequence of mutation calls the durable document contains
\* only values written by calls that themselves reached a successful
\* commit: a value applied in memory by a call that aborted on validation
\* or whose commit failed is never persisted by a later call's commit (of
\* the same or another handler) that did not supply it.  Every key whose
\* durable value a commit changes was set by the committing call.
C22_CommitPersistsOwnValuesOnly ==
    Invoked("WriteOk")
    => \A k \in AllKeys : disk[k] # last.preDisk[k] => k \in SetKeys

\* C23: in every state reachable by any sequence of ConfigureGeneral calls
\* from a store that satisfies it, the store never holds the filesystem
\* blob-storage type together with an empty blobs path.
C23_FilesystemHasBlobsPath ==
    ~(mem["BlobsStorage"] = "FILESYSTEM" /\ mem["BlobsPath"] = "")

====
